---------------------------- MODULE Spec2Model ----------------------------
(***************************************************************************)
(* Static file provider metrics                                            *)
(* (crates/storage/provider/src/providers/static_file/metrics.rs).         *)
(*                                                                         *)
(* StaticFileProviderMetrics owns nine gauges (StaticFileSegmentMetrics)   *)
(* and eighteen counters plus eighteen histograms                          *)
(* (StaticFileProviderOperationMetrics).  record_segment writes the three  *)
(* gauges of a segment; record_segment_operation increments the counter of *)
(* a (segment, operation) pair and, when a duration is given, records it   *)
(* in the pair's histogram.                                                *)
(*                                                                         *)
(* Numbers.  A u64 / usize argument and the f64 held by a gauge are        *)
(* written in binary, most significant digit first, without leading zeros  *)
(* (zero is the empty sequence), so that the cast `x as f64` can be        *)
(* modelled with its rounding to 53 significant digits.  A histogram       *)
(* sample is the duration in seconds, held as a count of 1e-9 s units; the *)
(* rounding of that quotient to f64 is not modelled.                       *)
(***************************************************************************)
EXTENDS Integers, Sequences, FiniteSets, TLC

VARIABLES
    metrics,   \* the StaticFileProviderMetrics value: [segments, segment_operations]
    log,       \* history: the calls a single caller has made, oldest first
    call,      \* per thread: the call the thread makes (<<>> before it calls)
    pc,        \* per thread: index of the next statement of its call's body
    overlap    \* history: some call began while another was in progress

vars == <<metrics, log, call, pc, overlap>>

----------------------------------------------------------------------------
(* Bounds of the model *)

\* calls a single caller makes in Spec
MaxCalls == 2
\* calls a single caller makes in SpecSameOperation
MaxSameOperationCalls == 4
\* threads of SpecThreads, each making one call
NumThreads == 2

----------------------------------------------------------------------------
(* Enumerations *)

\* reth_primitives::StaticFileSegment, as matched on by record_segment
StaticFileSegment == {"Headers", "Transactions", "Receipts"}

StaticFileProviderOperation ==
    {"InitCursor", "OpenWriter", "Append", "Prune", "IncrementBlock", "CommitWriter"}

----------------------------------------------------------------------------
(* Numbers *)

\* f64::MANTISSA_DIGITS: significant binary digits of an f64
F64MantissaDigits == 53

\* nanoseconds per second, the divisor of Duration::as_secs_f64
NanosPerSec == 1000000000

RECURSIVE Bin(_)
\* the u64 / usize with value n
Bin(n) == IF n = 0 THEN <<>> ELSE Bin(n \div 2) \o <<n % 2>>

Zeros(k) == [i \in 1..k |-> 0]

RECURSIVE Inc(_)
\* b + 1
Inc(b) ==
    IF b = <<>> THEN <<1>>
    ELSE IF b[Len(b)] = 0 THEN [b EXCEPT ![Len(b)] = 1]
    ELSE Inc(SubSeq(b, 1, Len(b) - 1)) \o <<0>>

RECURSIVE Add(_, _, _)
\* a + b + carry
Add(a, b, carry) ==
    IF a = <<>> /\ b = <<>> THEN (IF carry = 1 THEN <<1>> ELSE <<>>)
    ELSE LET la == IF a = <<>> THEN 0 ELSE a[Len(a)]
             lb == IF b = <<>> THEN 0 ELSE b[Len(b)]
             fa == IF a = <<>> THEN <<>> ELSE SubSeq(a, 1, Len(a) - 1)
             fb == IF b = <<>> THEN <<>> ELSE SubSeq(b, 1, Len(b) - 1)
             s  == la + lb + carry
         IN  Add(fa, fb, s \div 2) \o <<s % 2>>

\* `x as f64` for an unsigned integer x: exact up to 53 significant digits,
\* otherwise rounded to the nearest f64, ties to even
AsF64(x) ==
    IF Len(x) <= F64MantissaDigits THEN x
    ELSE LET keep   == SubSeq(x, 1, F64MantissaDigits)
             guard  == x[F64MantissaDigits + 1]
             sticky == \E i \in (F64MantissaDigits + 2)..Len(x) : x[i] = 1
             up     == guard = 1 /\ (sticky \/ keep[F64MantissaDigits] = 1)
         IN  (IF up THEN Inc(keep) ELSE keep) \o Zeros(Len(x) - F64MantissaDigits)

\* Duration::as_secs_f64: secs + nanos / 1e9, in units of 1e-9 s
as_secs_f64(duration) == duration.secs * NanosPerSec + duration.nanos

\* Option<Duration>
None == <<>>
Some(d) == <<d>>

----------------------------------------------------------------------------
(* The metric structs *)

\* StaticFileSegmentMetrics: the nine gauge fields
StaticFileSegmentMetrics ==
    {"headers_size", "transactions_size", "receipts_size",
     "headers_files", "transactions_files", "receipts_files",
     "headers_entries", "transactions_entries", "receipts_entries"}

\* StaticFileProviderOperationMetrics: the eighteen Counter fields
CounterFields ==
    {"headers_init_cursor_calls_total",
     "headers_open_writer_calls_total",
     "headers_append_calls_total",
     "headers_prune_calls_total",
     "headers_increment_block_calls_total",
     "headers_commit_writer_calls_total",
     "transactions_init_cursor_calls_total",
     "transactions_open_writer_calls_total",
     "transactions_append_calls_total",
     "transactions_prune_calls_total",
     "transactions_increment_block_calls_total",
     "transactions_commit_writer_calls_total",
     "receipts_init_cursor_calls_total",
     "receipts_open_writer_calls_total",
     "receipts_append_calls_total",
     "receipts_prune_calls_total",
     "receipts_increment_block_calls_total",
     "receipts_commit_writer_calls_total"}

\* StaticFileProviderOperationMetrics: the eighteen Histogram fields
HistogramFields ==
    {"headers_init_cursor_duration_seconds",
     "headers_open_writer_duration_seconds",
     "headers_append_duration_seconds",
     "headers_prune_duration_seconds",
     "headers_increment_block_duration_seconds",
     "headers_commit_writer_duration_seconds",
     "transactions_init_cursor_duration_seconds",
     "transactions_open_writer_duration_seconds",
     "transactions_append_duration_seconds",
     "transactions_prune_duration_seconds",
     "transactions_increment_block_duration_seconds",
     "transactions_commit_writer_duration_seconds",
     "receipts_init_cursor_duration_seconds",
     "receipts_open_writer_duration_seconds",
     "receipts_append_duration_seconds",
     "receipts_prune_duration_seconds",
     "receipts_increment_block_duration_seconds",
     "receipts_commit_writer_duration_seconds"}

\* #[derive(Default)]: every gauge 0, every counter 0, every histogram empty
Default ==
    [segments |-> [g \in StaticFileSegmentMetrics |-> Bin(0)],
     segment_operations |->
        [f \in CounterFields \cup HistogramFields |->
            IF f \in CounterFields THEN 0 ELSE <<>>]]

----------------------------------------------------------------------------
(* The metric handles: Gauge::set, Counter::increment, Histogram::record.  *)
(* Each acts on one metric, atomically.                                    *)

GaugeSet(m, field, value) == [m EXCEPT !.segments[field] = value]

CounterIncrement(m, field, value) ==
    [m EXCEPT !.segment_operations[field] = @ + value]

HistogramRecord(m, field, value) ==
    [m EXCEPT !.segment_operations[field] = Append(@, value)]

\* Gauge::increment, which the handlers do not call: adds to the gauge
GaugeIncrement(m, field, value) ==
    [m EXCEPT !.segments[field] = AsF64(Add(@, value, 0))]

\* the statements with `.increment(x as f64)` on the gauges in place of
\* `.set(x as f64)`
ExecGaugeIncrement(m, stmt) ==
    CASE stmt.op = "set"       -> GaugeIncrement(m, stmt.field, stmt.value)
      [] stmt.op = "increment" -> CounterIncrement(m, stmt.field, stmt.value)
      [] stmt.op = "record"    -> HistogramRecord(m, stmt.field, stmt.value)

\* one statement of a handler's body, applied to the metrics: `.set(..)` on a
\* gauge, `.increment(1)` on a counter, `.record(..)` on a histogram
Exec(m, stmt) ==
    CASE stmt.op = "set"       -> GaugeSet(m, stmt.field, stmt.value)
      [] stmt.op = "increment" -> CounterIncrement(m, stmt.field, stmt.value)
      [] stmt.op = "record"    -> HistogramRecord(m, stmt.field, stmt.value)

RECURSIVE Run(_, _)
\* the statements of a body, applied in program order
Run(m, body) == IF body = <<>> THEN m ELSE Run(Exec(m, Head(body)), Tail(body))

----------------------------------------------------------------------------
(* The handlers.  A handler's body is the sequence of its statements, each *)
(* a call on one metric handle, in program order.                          *)

\* record_segment, the match: the three gauges each arm writes
segment_gauges(segment) ==
    CASE segment = "Headers" ->
            [size |-> "headers_size", files |-> "headers_files", entries |-> "headers_entries"]
      [] segment = "Transactions" ->
            [size |-> "transactions_size", files |-> "transactions_files", entries |-> "transactions_entries"]
      [] segment = "Receipts" ->
            [size |-> "receipts_size", files |-> "receipts_files", entries |-> "receipts_entries"]

\* record_segment whose Receipts arm writes transactions_entries
record_segment_copy_paste(segment, size, files, entries) ==
    LET g == segment_gauges(segment)
    IN  <<[op |-> "set", field |-> g.size,    value |-> AsF64(size)],
          [op |-> "set", field |-> g.files,   value |-> AsF64(files)],
          [op |-> "set",
           field |-> IF segment = "Receipts" THEN "transactions_entries"
                     ELSE g.entries,
           value |-> AsF64(entries)]>>

\* record_segment that sets the files gauge from entries and the entries
\* gauge from files
record_segment_swapped(segment, size, files, entries) ==
    LET g == segment_gauges(segment)
    IN  <<[op |-> "set", field |-> g.size,    value |-> AsF64(size)],
          [op |-> "set", field |-> g.files,   value |-> AsF64(entries)],
          [op |-> "set", field |-> g.entries, value |-> AsF64(files)]>>

\* record_segment: set(size as f64), set(files as f64), set(entries as f64)
record_segment(segment, size, files, entries) ==
    LET g == segment_gauges(segment)
    IN  <<[op |-> "set", field |-> g.size,    value |-> AsF64(size)],
          [op |-> "set", field |-> g.files,   value |-> AsF64(files)],
          [op |-> "set", field |-> g.entries, value |-> AsF64(entries)]>>

\* record_operation! with the increment inside the `if let`
record_operation_timed_only(counter, histogram, duration) ==
    IF duration # None
    THEN <<[op |-> "increment", field |-> counter, value |-> 1],
           [op |-> "record", field |-> histogram,
            value |-> as_secs_f64(duration[1])]>>
    ELSE <<>>

\* record_operation! that records duration.unwrap_or_default()
record_operation_unwrap_or_default(counter, histogram, duration) ==
    <<[op |-> "increment", field |-> counter, value |-> 1],
      [op |-> "record", field |-> histogram,
       value |-> IF duration # None THEN as_secs_f64(duration[1]) ELSE 0]>>

\* record_operation! that records the duration before it increments
record_operation_record_first(counter, histogram, duration) ==
    (IF duration # None
     THEN <<[op |-> "record", field |-> histogram,
             value |-> as_secs_f64(duration[1])]>>
     ELSE <<>>)
    \o <<[op |-> "increment", field |-> counter, value |-> 1]>>

\* the macro record_operation!: increment(1), then record the duration if any
record_operation(counter, histogram, duration) ==
    <<[op |-> "increment", field |-> counter, value |-> 1]>>
    \o (IF duration # None
        THEN <<[op |-> "record", field |-> histogram,
                value |-> as_secs_f64(duration[1])]>>
        ELSE <<>>)

\* record_segment_operation, the match: the counter and the histogram each
\* arm hands to record_operation!
operation_metrics(segment, operation) ==
    CASE segment = "Headers" /\ operation = "InitCursor" ->
            [counter   |-> "headers_init_cursor_calls_total",
             histogram |-> "headers_init_cursor_duration_seconds"]
      [] segment = "Headers" /\ operation = "OpenWriter" ->
            [counter   |-> "headers_open_writer_calls_total",
             histogram |-> "headers_open_writer_duration_seconds"]
      [] segment = "Headers" /\ operation = "Append" ->
            [counter   |-> "headers_append_calls_total",
             histogram |-> "headers_append_duration_seconds"]
      [] segment = "Headers" /\ operation = "Prune" ->
            [counter   |-> "headers_prune_calls_total",
             histogram |-> "headers_prune_duration_seconds"]
      [] segment = "Headers" /\ operation = "IncrementBlock" ->
            [counter   |-> "headers_increment_block_calls_total",
             histogram |-> "headers_increment_block_duration_seconds"]
      [] segment = "Headers" /\ operation = "CommitWriter" ->
            [counter   |-> "headers_commit_writer_calls_total",
             histogram |-> "headers_commit_writer_duration_seconds"]
      [] segment = "Transactions" /\ operation = "InitCursor" ->
            [counter   |-> "transactions_init_cursor_calls_total",
             histogram |-> "transactions_init_cursor_duration_seconds"]
      [] segment = "Transactions" /\ operation = "OpenWriter" ->
            [counter   |-> "transactions_open_writer_calls_total",
             histogram |-> "transactions_open_writer_duration_seconds"]
      [] segment = "Transactions" /\ operation = "Append" ->
            [counter   |-> "transactions_append_calls_total",
             histogram |-> "transactions_append_duration_seconds"]
      [] segment = "Transactions" /\ operation = "Prune" ->
            [counter   |-> "transactions_prune_calls_total",
             histogram |-> "transactions_prune_duration_seconds"]
      [] segment = "Transactions" /\ operation = "IncrementBlock" ->
            [counter   |-> "transactions_increment_block_calls_total",
             histogram |-> "transactions_increment_block_duration_seconds"]
      [] segment = "Transactions" /\ operation = "CommitWriter" ->
            [counter   |-> "transactions_commit_writer_calls_total",
             histogram |-> "transactions_commit_writer_duration_seconds"]
      [] segment = "Receipts" /\ operation = "InitCursor" ->
            [counter   |-> "receipts_init_cursor_calls_total",
             histogram |-> "receipts_init_cursor_duration_seconds"]
      [] segment = "Receipts" /\ operation = "OpenWriter" ->
            [counter   |-> "receipts_open_writer_calls_total",
             histogram |-> "receipts_open_writer_duration_seconds"]
      [] segment = "Receipts" /\ operation = "Append" ->
            [counter   |-> "receipts_append_calls_total",
             histogram |-> "receipts_append_duration_seconds"]
      [] segment = "Receipts" /\ operation = "Prune" ->
            [counter   |-> "receipts_prune_calls_total",
             histogram |-> "receipts_prune_duration_seconds"]
      [] segment = "Receipts" /\ operation = "IncrementBlock" ->
            [counter   |-> "receipts_increment_block_calls_total",
             histogram |-> "receipts_increment_block_duration_seconds"]
      [] segment = "Receipts" /\ operation = "CommitWriter" ->
            [counter   |-> "receipts_commit_writer_calls_total",
             histogram |-> "receipts_commit_writer_duration_seconds"]

\* record_segment_operation whose (Headers, Prune) arm names the counter of
\* (Headers, Append)
record_segment_operation_copy_paste_counter(segment, operation, duration) ==
    LET f == operation_metrics(segment, operation)
    IN  record_operation(
            IF segment = "Headers" /\ operation = "Prune"
            THEN operation_metrics("Headers", "Append").counter ELSE f.counter,
            f.histogram, duration)

\* record_segment_operation whose (Transactions, Append) arm names the
\* histogram of (Receipts, Append)
record_segment_operation_copy_paste_histogram(segment, operation, duration) ==
    LET f == operation_metrics(segment, operation)
    IN  record_operation(
            f.counter,
            IF segment = "Transactions" /\ operation = "Append"
            THEN operation_metrics("Receipts", "Append").histogram
            ELSE f.histogram,
            duration)

\* record_segment_operation
record_segment_operation(segment, operation, duration) ==
    LET f == operation_metrics(segment, operation)
    IN  record_operation(f.counter, f.histogram, duration)

\* the body of a call
Body(c) ==
    IF c.fn = "record_segment"
    THEN record_segment(c.segment, c.size, c.files, c.entries)
    ELSE record_segment_operation(c.segment, c.operation, c.duration)

----------------------------------------------------------------------------
(* Inputs *)

\* the u64 2^53 + 1, the least that no f64 holds
TwoPow53Plus1 ==
    [i \in 1..(F64MantissaDigits + 1) |->
        IF i = 1 \/ i = F64MantissaDigits + 1 THEN 1 ELSE 0]

SnapshotA == [size |-> Bin(100), files |-> Bin(2), entries |-> Bin(50)]
SnapshotB == [size |-> Bin(200), files |-> Bin(3), entries |-> Bin(60)]
SnapshotBig == [size |-> TwoPow53Plus1, files |-> Bin(5), entries |-> Bin(110)]

Snapshots == {SnapshotA, SnapshotB, SnapshotBig}

Millis12 == [secs |-> 0, nanos |-> 12000000]
Millis1500 == [secs |-> 1, nanos |-> 500000000]

Durations == {None, Some(Millis12), Some(Millis1500)}

SegmentCall(segment, size, files, entries) ==
    [fn |-> "record_segment", segment |-> segment,
     size |-> size, files |-> files, entries |-> entries]

OperationCall(segment, operation, duration) ==
    [fn |-> "record_segment_operation", segment |-> segment,
     operation |-> operation, duration |-> duration]

\* the calls the threads of SpecThreads choose from
ThreadCalls ==
    {SegmentCall(s, n.size, n.files, n.entries) :
        s \in {"Headers", "Transactions"}, n \in Snapshots}
    \cup {OperationCall("Headers", o, d) :
            o \in {"Append", "Prune"}, d \in {None, Some(Millis12)}}
    \cup {OperationCall("Transactions", "Append", d) :
            d \in {None, Some(Millis12)}}

Threads == 1..NumThreads

----------------------------------------------------------------------------
(* Construction *)

Init ==
    /\ metrics = Default
    /\ log = <<>>
    /\ call = [t \in Threads |-> <<>>]
    /\ pc = [t \in Threads |-> 0]
    /\ overlap = FALSE

----------------------------------------------------------------------------
(* A single caller: each call runs to completion *)

\* the effect of a whole call: the statements of its body, in order
Recorded(c) ==
    /\ metrics' = Run(metrics, Body(c))
    /\ log' = Append(log, c)
    /\ UNCHANGED <<call, pc, overlap>>

RecordSegment(segment, size, files, entries) ==
    /\ Len(log) < MaxCalls
    /\ Recorded(SegmentCall(segment, size, files, entries))

RecordSegmentOperation(segment, operation, duration) ==
    /\ Len(log) < MaxCalls
    /\ Recorded(OperationCall(segment, operation, duration))

Next ==
    \/ \E segment \in StaticFileSegment, n \in Snapshots :
            RecordSegment(segment, n.size, n.files, n.entries)
    \/ \E segment \in StaticFileSegment,
          operation \in StaticFileProviderOperation,
          duration \in Durations :
            RecordSegmentOperation(segment, operation, duration)

Spec == Init /\ [][Next]_vars

\* a caller that records one kind of operation, on any segment
RecordSameOperation(segment, operation, duration) ==
    /\ Len(log) < MaxSameOperationCalls
    /\ log # <<>> => operation = log[1].operation
    /\ Recorded(OperationCall(segment, operation, duration))

NextSameOperation ==
    \E segment \in StaticFileSegment,
       operation \in StaticFileProviderOperation,
       duration \in Durations :
        RecordSameOperation(segment, operation, duration)

SpecSameOperation == Init /\ [][NextSameOperation]_vars

----------------------------------------------------------------------------
(* Concurrent callers: each thread makes one call; the statements of the   *)
(* calls interleave, each statement atomic                                 *)

InProgress(t) == pc[t] >= 1 /\ pc[t] <= Len(Body(call[t]))

Returned(t) == pc[t] >= 1 /\ pc[t] > Len(Body(call[t]))

\* thread t enters record_segment or record_segment_operation
ThreadCall(t, c) ==
    /\ pc[t] = 0
    /\ call' = [call EXCEPT ![t] = c]
    /\ pc' = [pc EXCEPT ![t] = 1]
    /\ overlap' = (overlap \/ \E u \in Threads \ {t} : InProgress(u))
    /\ UNCHANGED <<metrics, log>>

\* the statement thread t executes next
Statement(t) == Body(call[t])[pc[t]]

\* thread t executes its next statement
Executed(t) ==
    /\ metrics' = Exec(metrics, Statement(t))
    /\ pc' = [pc EXCEPT ![t] = @ + 1]
    /\ UNCHANGED <<log, call, overlap>>

\* a statement of record_segment
ThreadGaugeSet(t) ==
    /\ InProgress(t)
    /\ Statement(t).op = "set"
    /\ Executed(t)

\* the increment as a separate load and store: when another thread is at the
\* increment of the same counter, the two store the same value and one
\* increment is lost
ThreadCounterIncrementRacy(t) ==
    /\ InProgress(t)
    /\ Statement(t).op = "increment"
    /\ IF \E u \in Threads \ {t} :
            /\ InProgress(u)
            /\ Statement(u).op = "increment"
            /\ Statement(u).field = Statement(t).field
       THEN /\ pc' = [pc EXCEPT ![t] = @ + 1]
            /\ UNCHANGED <<metrics, log, call, overlap>>
       ELSE Executed(t)

\* the first statement of record_operation!
ThreadCounterIncrement(t) ==
    /\ InProgress(t)
    /\ Statement(t).op = "increment"
    /\ Executed(t)

\* the second statement of record_operation!
ThreadHistogramRecord(t) ==
    /\ InProgress(t)
    /\ Statement(t).op = "record"
    /\ Executed(t)

NextThreads ==
    \E t \in Threads :
        \/ \E c \in ThreadCalls : ThreadCall(t, c)
        \/ ThreadGaugeSet(t)
        \/ ThreadCounterIncrement(t)
        \/ ThreadHistogramRecord(t)

SpecThreads == Init /\ [][NextThreads]_vars

----------------------------------------------------------------------------
(* The metric of a segment or of a (segment, operation) pair, by the names *)
(* the structs give their fields: <segment>_{size,files,entries},          *)
(* <segment>_<operation>_calls_total, <segment>_<operation>_duration_seconds *)

segment_name(segment) ==
    CASE segment = "Headers"      -> "headers"
      [] segment = "Transactions" -> "transactions"
      [] segment = "Receipts"     -> "receipts"

operation_name(operation) ==
    CASE operation = "InitCursor"     -> "init_cursor"
      [] operation = "OpenWriter"     -> "open_writer"
      [] operation = "Append"         -> "append"
      [] operation = "Prune"          -> "prune"
      [] operation = "IncrementBlock" -> "increment_block"
      [] operation = "CommitWriter"   -> "commit_writer"

Components == {"size", "files", "entries"}

\* the gauge of each (segment, component)
gauge ==
    [segment \in StaticFileSegment, component \in Components |->
        segment_name(segment) \o "_" \o component]

\* the counter of each (segment, operation)
calls_total ==
    [segment \in StaticFileSegment, operation \in StaticFileProviderOperation |->
        segment_name(segment) \o "_" \o operation_name(operation)
            \o "_calls_total"]

\* the histogram of each (segment, operation)
duration_seconds ==
    [segment \in StaticFileSegment, operation \in StaticFileProviderOperation |->
        segment_name(segment) \o "_" \o operation_name(operation)
            \o "_duration_seconds"]

GaugeValue(segment, component) == metrics.segments[gauge[segment, component]]

CounterValue(segment, operation) ==
    metrics.segment_operations[calls_total[segment, operation]]

Samples(segment, operation) ==
    metrics.segment_operations[duration_seconds[segment, operation]]

----------------------------------------------------------------------------
(* The history of a single caller *)

IsOperationCall(c, segment, operation) ==
    /\ c.fn = "record_segment_operation"
    /\ c.segment = segment
    /\ c.operation = operation

IsSegmentCall(c, segment) == c.fn = "record_segment" /\ c.segment = segment

\* the positions in the log of the calls for (segment, operation)
OperationCalls(segment, operation) ==
    {i \in DOMAIN log : IsOperationCall(log[i], segment, operation)}

\* the positions in the log of the record_segment calls for segment
SegmentCalls(segment) == {i \in DOMAIN log : IsSegmentCall(log[i], segment)}

RECURSIVE GivenDurations(_)
\* for each (segment, operation), the durations, in seconds, that the first
\* n calls of the log gave for it, oldest first
GivenDurations(n) ==
    IF n = 0
    THEN [segment \in StaticFileSegment,
          operation \in StaticFileProviderOperation |-> <<>>]
    ELSE LET c    == log[n]
             rest == GivenDurations(n - 1)
         IN  IF c.fn = "record_segment_operation" /\ c.duration # None
             THEN [rest EXCEPT ![c.segment, c.operation] =
                        Append(@, as_secs_f64(c.duration[1]))]
             ELSE rest

\* the most recent record_segment call for segment
LastSegmentCall(segment) ==
    log[CHOOSE i \in SegmentCalls(segment) :
            \A j \in SegmentCalls(segment) : j <= i]

\* this step is a call: the call made
IsCall == Len(log') = Len(log) + 1
ThisCall == log'[Len(log')]

----------------------------------------------------------------------------
(* Claims about the counters and histograms of a single caller,            *)
(* checked under SpecSameOperation                                         *)

\* C1: after any sequence of record_segment_operation calls on a fresh
\* registry, the counter of every (segment, operation) equals the number of
\* calls made with exactly that pair, with or without a duration.
C1_CounterCountsCalls ==
    \A segment \in StaticFileSegment, operation \in StaticFileProviderOperation :
        CounterValue(segment, operation)
            = Cardinality(OperationCalls(segment, operation))

\* C1 witness: four calls for (Headers, Append), some with and some without
\* a duration, and the counter reads 4.
C1_Witness ==
    /\ Cardinality(OperationCalls("Headers", "Append")) = 4
    /\ \E i, j \in DOMAIN log : log[i].duration = None /\ log[j].duration # None
    /\ CounterValue("Headers", "Append") = 4

\* C3: the histogram of every (segment, operation) holds exactly the
\* durations given to the calls for that pair, one sample per call that gave
\* one, in call order; a call without a duration adds nothing, and a call
\* for another pair adds nothing.
C3_HistogramHoldsGivenDurations ==
    [segment \in StaticFileSegment, operation \in StaticFileProviderOperation |->
        Samples(segment, operation)] = GivenDurations(Len(log))

\* C3 witness: (Headers, Append) recorded three times with 12 ms and once
\* without a duration: counter 4, three samples of 0.012 s, and the
\* (Transactions, Append) counter still 0.
C3_Witness ==
    /\ Len(log) = 4
    /\ \A i \in DOMAIN log : IsOperationCall(log[i], "Headers", "Append")
    /\ Cardinality({i \in DOMAIN log : log[i].duration = Some(Millis12)}) = 3
    /\ Cardinality({i \in DOMAIN log : log[i].duration = None}) = 1
    /\ CounterValue("Headers", "Append") = 4
    /\ Samples("Headers", "Append")
        = <<as_secs_f64(Millis12), as_secs_f64(Millis12), as_secs_f64(Millis12)>>
    /\ CounterValue("Transactions", "Append") = 0

----------------------------------------------------------------------------
(* Claims about single calls of a single caller, checked under Spec        *)

\* the counters and histograms a step changes
Changed ==
    {f \in CounterFields \cup HistogramFields :
        metrics'.segment_operations[f] # metrics.segment_operations[f]}

C2_Step ==
    (IsCall /\ ThisCall.fn = "record_segment_operation") =>
        LET c == ThisCall
        IN  /\ Changed
                = {calls_total[c.segment, c.operation]}
                  \cup (IF c.duration # None
                        THEN {duration_seconds[c.segment, c.operation]}
                        ELSE {})
            /\ \A segment \in StaticFileSegment,
                  operation \in StaticFileProviderOperation :
                    <<segment, operation>> # <<c.segment, c.operation>> =>
                        /\ CounterValue(segment, operation)'
                            = CounterValue(segment, operation)
                        /\ Samples(segment, operation)'
                            = Samples(segment, operation)

\* C2: a record_segment_operation call for (s, o) changes exactly one
\* counter, the one named for (s, o), and, when a duration is given, exactly
\* one histogram, the one named for (s, o); the counters and histograms of
\* the 17 other pairs keep their values, so no two pairs share a metric.
C2_DispatchTotalInjective == [][C2_Step]_vars

\* C2 witness: one call for (Receipts, CommitWriter) with a duration has
\* been made; its counter reads 1, its histogram holds the sample, and every
\* other counter is 0 and every other histogram empty.
C2_Witness ==
    /\ log = <<OperationCall("Receipts", "CommitWriter", Some(Millis1500))>>
    /\ CounterValue("Receipts", "CommitWriter") = 1
    /\ Samples("Receipts", "CommitWriter") = <<as_secs_f64(Millis1500)>>
    /\ \A segment \in StaticFileSegment,
          operation \in StaticFileProviderOperation :
            <<segment, operation>> # <<"Receipts", "CommitWriter">> =>
                /\ CounterValue(segment, operation) = 0
                /\ Samples(segment, operation) = <<>>

\* C4 as stated: the gauges of a segment equal the arguments of the most
\* recent record_segment call for it.
C4_GaugesEqualLastArguments ==
    \A segment \in StaticFileSegment :
        SegmentCalls(segment) # {} =>
            LET c == LastSegmentCall(segment)
            IN  /\ GaugeValue(segment, "size") = c.size
                /\ GaugeValue(segment, "files") = c.files
                /\ GaugeValue(segment, "entries") = c.entries

\* C4, amended: the gauges of a segment hold the arguments of the most
\* recent record_segment call for it, each converted to f64, whatever the
\* earlier calls were; an argument of at most 53 significant binary digits
\* (up to 2^53) is held exactly.
C4_GaugesHoldLastArgumentsAsF64 ==
    \A segment \in StaticFileSegment :
        SegmentCalls(segment) # {} =>
            LET c == LastSegmentCall(segment)
            IN  \A component \in Components :
                    /\ GaugeValue(segment, component) = AsF64(c[component])
                    /\ Len(c[component]) <= F64MantissaDigits =>
                            GaugeValue(segment, component) = c[component]

\* C4 witness: record_segment(Headers, 100, 2, 50) then
\* record_segment(Headers, 200, 3, 60) leaves (200, 3, 60).
C4_Witness ==
    /\ log = <<SegmentCall("Headers", Bin(100), Bin(2), Bin(50)),
               SegmentCall("Headers", Bin(200), Bin(3), Bin(60))>>
    /\ GaugeValue("Headers", "size") = Bin(200)
    /\ GaugeValue("Headers", "files") = Bin(3)
    /\ GaugeValue("Headers", "entries") = Bin(60)

C5_Step ==
    IsCall =>
        \A segment \in StaticFileSegment \ {ThisCall.segment} :
            /\ \A component \in Components :
                    GaugeValue(segment, component)' = GaugeValue(segment, component)
            /\ \A operation \in StaticFileProviderOperation :
                    /\ CounterValue(segment, operation)'
                        = CounterValue(segment, operation)
                    /\ Samples(segment, operation)' = Samples(segment, operation)

C7_Step ==
    (/\ IsCall
     /\ log # <<>>
     /\ ThisCall.fn = "record_segment"
     /\ log[Len(log)].fn = "record_segment"
     /\ ThisCall = log[Len(log)]) => metrics' = metrics

\* C7: a record_segment call that repeats the call just made, same segment
\* and same (size, files, entries), leaves the whole registry as the first
\* call left it.
C7_RecordSegmentIdempotent == [][C7_Step]_vars

\* C7 witness: record_segment(Transactions, 100, 2, 50) made twice in a row.
C7_Witness ==
    /\ log = <<SegmentCall("Transactions", Bin(100), Bin(2), Bin(50)),
               SegmentCall("Transactions", Bin(100), Bin(2), Bin(50))>>
    /\ GaugeValue("Transactions", "size") = Bin(100)
    /\ GaugeValue("Transactions", "files") = Bin(2)
    /\ GaugeValue("Transactions", "entries") = Bin(50)

----------------------------------------------------------------------------
(* Claims about concurrent callers, checked under SpecThreads              *)

\* C6: when every thread has made and returned from its one call, the
\* counter of every (segment, operation) equals the number of threads that
\* called record_segment_operation for that pair, under every interleaving:
\* N concurrent calls for one pair leave its counter at N.
C6_NoLostUpdates ==
    (\A t \in Threads : Returned(t)) =>
        \A segment \in StaticFileSegment,
           operation \in StaticFileProviderOperation :
            CounterValue(segment, operation)
                = Cardinality({t \in Threads :
                                IsOperationCall(call[t], segment, operation)})

\* C6 witness: all NumThreads threads called (Headers, Append), a call began
\* while another was in progress, all have returned, and the counter reads
\* NumThreads.
C6_Witness ==
    /\ \A t \in Threads :
            Returned(t) /\ IsOperationCall(call[t], "Headers", "Append")
    /\ overlap
    /\ CounterValue("Headers", "Append") = NumThreads

\* C9: in every reachable state, between the statements of calls in progress
\* included, the histogram of every (segment, operation) holds at most as
\* many samples as its counter reads.
C9_SamplesAtMostCounter ==
    \A segment \in StaticFileSegment, operation \in StaticFileProviderOperation :
        Len(Samples(segment, operation)) <= CounterValue(segment, operation)

\* C9 witness: two threads are inside timed calls for (Headers, Append), one
\* has incremented and not yet recorded, and the histogram holds fewer
\* samples than the counter reads.
C9_Witness ==
    \E t, u \in Threads :
        /\ t # u
        /\ InProgress(t) /\ InProgress(u)
        /\ IsOperationCall(call[t], "Headers", "Append")
        /\ IsOperationCall(call[u], "Headers", "Append")
        /\ Statement(t).op = "record"
        /\ Len(Samples("Headers", "Append")) < CounterValue("Headers", "Append")

\* the threads that have called record_segment for segment
SegmentCallers(segment) ==
    {t \in Threads : pc[t] >= 1 /\ IsSegmentCall(call[t], segment)}

\* threads t and u are the two callers of record_segment for segment, with
\* snapshots that differ in every component, and both have returned
TwoCallersReturned(segment, t, u) ==
    /\ t # u
    /\ SegmentCallers(segment) = {t, u}
    /\ Returned(t) /\ Returned(u)
    /\ \A component \in Components : call[t][component] # call[u][component]

=============================================================================
